---------------------------- MODULE Spec2Model ----------------------------
(* A model of the-league: the match loop of league/compete.py (run_match)  *)
(* and the video production of league/video.py (hex_to_rgb, the glow       *)
(* outlines of the three phase renderers, save_match_video).               *)
(*                                                                         *)
(* Strings are sequences of one-character strings. Durations are counted   *)
(* in frame ticks (1/FPS s), so a clip of n frames lasts n ticks.          *)
EXTENDS Integers, Sequences, FiniteSets, TLC

VARIABLES
    pc,               \* position in run_match / save_match_video
    record,           \* run_match(record=...)
    max_turns,        \* run_match(max_turns=...)
    team1_color,      \* team1.color, a color token
    turn_count,       \* run_match: turn_count
    rewards,          \* run_match: rewards, as <<team1 total, team2 total>>
    scores_over_time, \* run_match: scores_over_time
    frames,           \* run_match: frames (each tagged with the turn it was rendered on)
    env_log,          \* what env.last() delivered on each turn: the acting team, its reward
    step_log,         \* the action passed to each env.step(): "None" or "chosen"
    decide_calls,     \* number of calls of select_action_with_skill in the loop
    env_closed,       \* number of env.close() calls
    winner,           \* run_match: winner ("team1", "team2", "none"; "unset" before)
    sampled_scores,   \* run_match: sampled_scores, the scores handed to save_match_video
    exc,              \* the exception that left the call, "none" if none
    result_video,     \* result["video"]: "absent" or "path"
    all_frames,       \* save_match_video: all_frames (the Timeline)
    final_score,      \* save_match_video: (final_score1, final_score2)
    video_open,       \* the ImageSequenceClip has been created and not closed
    audio_open,       \* an AudioFileClip has been opened and not closed
    audio_in,         \* the background asset met by save_match_video
    audio_track,      \* the audio attached to the video: NoTrack or a record
    written,          \* write_videofile has completed
    token,            \* hex_to_rgb: the argument hex_color
    color_result,     \* hex_to_rgb: Pending, or the outcome of the call
    glow_drawn,       \* the glow outline colors drawn by one phase renderer
    clock,            \* the wall clock read by datetime.now(), in ticks
    saves,            \* the invocations of save_match_video that computed a path
    skill_in,         \* the arguments and random draws of select_action_with_skill
    skill_out,        \* its outcome: NoOutcome, or the action and the predict calls
    cfg_in,           \* the request to a CLI: teams.yaml's game, the team id asked for
    cfg_state,        \* load_config / get_team: position, side effects, error
    render_in,        \* a phase renderer's arguments
    render_frames     \* the frames it has rendered so far

vars == <<pc, record, max_turns, team1_color, turn_count, rewards,
          scores_over_time, frames, env_log, env_closed, winner,
          sampled_scores, exc,
          result_video,
          all_frames, final_score, video_open, audio_open, audio_in,
          audio_track, written, token, color_result, glow_drawn,
          step_log, decide_calls, clock, saves, skill_in, skill_out,
          cfg_in, cfg_state, render_in, render_frames>>

matchVars == <<record, max_turns, team1_color, turn_count, rewards,
               scores_over_time, frames, env_log, step_log, decide_calls,
               env_closed, winner, sampled_scores, result_video>>
videoVars == <<all_frames, final_score, video_open, audio_open, audio_in,
               audio_track, written>>
colorVars == <<token, color_result, glow_drawn>>
pathVars == <<clock, saves>>
skillVars == <<skill_in, skill_out>>
configVars == <<cfg_in, cfg_state>>
renderVars == <<render_in, render_frames>>
otherVars == <<pathVars, skillVars, configVars, renderVars>>

-----------------------------------------------------------------------------
(* Bounds of the model *)

\* the largest max_turns explored
MaxTurns == 3

\* the longest color token explored
MaxLen == 7

\* the last clock tick explored, and the clock ticks per second
MaxClock == 5
TicksPerSecond == 2

\* the number of invocations of save_match_video explored together
MaxSaves == 2

\* the size of the action space of the game
NumActions == 3

\* the longest duration, in seconds, of an Intro or Outcome sequence
MaxDuration == 4

-----------------------------------------------------------------------------
(* Program constants *)

FPS == 24
VIDEO_WIDTH == 720

\* run_match samples a frame when turn_count % 2 == 0 and the scores with [::2]
SamplingStride == 2

\* create_animated_intro(duration=3.0): int(3.0 * FPS) frames
IntroFrameCount == 3 * FPS

\* create_winner_sequence(duration=4.0): int(4.0 * FPS) frames
OutcomeFrameCount == 4 * FPS

\* audio.volumex(0.3), in percent
VolumePercent == 30

Min(a, b) == IF a < b THEN a ELSE b

\* the rewards env.last() may deliver on one turn
Rewards == {-1, 0, 1}

\* team1.color as configured: a well-formed token and a malformed one
TeamColors == { <<"#", "F", "F", "0", "0", "0", "0">>, <<"#", "0", "0", "0">> }

\* durations (in ticks) of the background audio asset: shorter than any video,
\* equal to a video with one or two Play frames, longer than any video
AudioDurations == {100, 169, 170, 400}

\* where the audio block of save_match_video may raise
AudioFailPoints == {"none", "load", "fit", "volumex", "set_audio"}

NoFrame == [turn |-> 0]
NoTrack == [duration |-> 0, mode |-> "none", volume |-> 0]
NoAudio == [exists |-> FALSE, duration |-> 0, fail |-> "none"]
Pending == [ok |-> FALSE, rgb |-> <<"pending">>]
NoGlow == [phase |-> "none", base |-> <<>>, outlines |-> <<>>]
NoSkillCall == [mask |-> <<>>, skill |-> 0, draw |-> 0, policy |-> 0, pick |-> 0]
NoOutcome == [action |-> -1, predicts |-> -1]
NoRequest == [cli |-> "none", game |-> "none", team1 |-> "none", team2 |-> "none",
              models_existed |-> FALSE]
ConfigIdle == [at |-> "idle", models_dir |-> FALSE, started |-> FALSE,
               error |-> "none"]
NoRender == [phase |-> "none", num_frames |-> 0, winner |-> "none"]

\* the state of the variables of the parts a specification does not exercise
OtherIdle ==
    /\ clock = 0
    /\ saves = <<>>
    /\ skill_in = NoSkillCall
    /\ skill_out = NoOutcome
    /\ cfg_in = NoRequest
    /\ cfg_state = ConfigIdle
    /\ render_in = NoRender
    /\ render_frames = <<>>

-----------------------------------------------------------------------------
(* league/video.py: hex_to_rgb *)

HexDigits == {"0","1","2","3","4","5","6","7","8","9",
              "a","b","c","d","e","f","A","B","C","D","E","F"}

HexDigitVal(c) ==
    CASE c = "0" -> 0 [] c = "1" -> 1 [] c = "2" -> 2 [] c = "3" -> 3
      [] c = "4" -> 4 [] c = "5" -> 5 [] c = "6" -> 6 [] c = "7" -> 7
      [] c = "8" -> 8 [] c = "9" -> 9
      [] c \in {"a", "A"} -> 10 [] c \in {"b", "B"} -> 11
      [] c \in {"c", "C"} -> 12 [] c \in {"d", "D"} -> 13
      [] c \in {"e", "E"} -> 14 [] c \in {"f", "F"} -> 15

\* the characters color tokens are built from in the model
Alphabet == {"#", "0", "a", "F", "-"}

\* str.lstrip("#"): drops every leading '#', not only the first
RECURSIVE LStripAll(_)
LStripAll(s) ==
    IF s # <<>> /\ Head(s) = "#" THEN LStripAll(Tail(s)) ELSE s

\* a plausible slip: no marker is removed
LStripNone(s) == s

lstrip(s) == LStripAll(s)

\* Python's s[i:j] (0-based, end clipped to the length)
PySlice(s, i, j) == SubSeq(s, Min(i, Len(s)) + 1, Min(j, Len(s)))

RECURSIVE DigitsValue(_, _)
DigitsValue(s, acc) ==
    IF s = <<>> THEN acc
    ELSE IF Head(s) = "_" THEN DigitsValue(Tail(s), acc)
    ELSE DigitsValue(Tail(s), 16 * acc + HexDigitVal(Head(s)))

\* the digit part of an int() literal: hex digits, single underscores between them
WellFormedDigits(s) ==
    /\ s # <<>>
    /\ \A k \in 1..Len(s) : s[k] \in HexDigits \cup {"_"}
    /\ s[1] # "_" /\ s[Len(s)] # "_"
    /\ \A k \in 1..(Len(s) - 1) : ~(s[k] = "_" /\ s[k + 1] = "_")

RECURSIVE StripSpaces(_)
StripSpaces(s) ==
    IF s # <<>> /\ Head(s) = " " THEN StripSpaces(Tail(s))
    ELSE IF s # <<>> /\ s[Len(s)] = " " THEN StripSpaces(SubSeq(s, 1, Len(s) - 1))
    ELSE s

\* Python's int(s, 16) on a slice of at most two characters: surrounding
\* whitespace is ignored and one sign is accepted; anything else that is not
\* hex digits raises ValueError (a "0x" prefix needs digits after it, which a
\* two-character slice cannot hold).
PyInt16(s) ==
    LET t    == StripSpaces(s)
        neg  == t # <<>> /\ Head(t) = "-"
        body == IF t # <<>> /\ Head(t) \in {"+", "-"} THEN Tail(t) ELSE t
    IN  IF WellFormedDigits(body)
        THEN [ok |-> TRUE,
              val |-> IF neg THEN 0 - DigitsValue(body, 0) ELSE DigitsValue(body, 0)]
        ELSE [ok |-> FALSE, val |-> 0]

ColorError == [ok |-> FALSE, rgb |-> <<>>]

hex_to_rgb(hex_color) ==
    LET h == lstrip(hex_color)
        r == PyInt16(PySlice(h, 0, 2))
        g == PyInt16(PySlice(h, 2, 4))
        b == PyInt16(PySlice(h, 4, 6))
    IN  IF r.ok /\ g.ok /\ b.ok
        THEN [ok |-> TRUE, rgb |-> <<r.val, g.val, b.val>>]
        ELSE ColorError

-----------------------------------------------------------------------------
(* league/video.py: the glow outlines of the three phase renderers *)

\* create_animated_intro: for glow in range(3, 0, -1): min(255, c + 30 * glow)
IntroGlowStep == 30
IntroGlowPasses == 3

\* create_game_frame: for glow in range(2, 0, -1): min(255, c + 40 * glow)
PlayGlowStep == 40
PlayGlowPasses == 2

\* create_winner_sequence: for glow in range(5, 0, -1): min(255, c + 20 * glow)
OutcomeGlowStep == 20
OutcomeGlowPasses == 5

Phases == {"intro", "play", "outcome"}

GlowStep(phase) ==
    CASE phase = "intro" -> IntroGlowStep
      [] phase = "play" -> PlayGlowStep
      [] phase = "outcome" -> OutcomeGlowStep

GlowPasses(phase) ==
    CASE phase = "intro" -> IntroGlowPasses
      [] phase = "play" -> PlayGlowPasses
      [] phase = "outcome" -> OutcomeGlowPasses

\* a plausible slip: the brightened channel is not clamped
GlowChannelUnclamped(c, step, glow) == c + step * glow

\* min(255, c + step * glow)
GlowChannel(c, step, glow) == Min(255, c + step * glow)

\* tuple(min(255, c + step * glow) for c in color)
GlowColor(color, step, glow) ==
    [k \in 1..Len(color) |-> GlowChannel(color[k], step, glow)]

\* the outlines one glow loop draws, outermost (largest glow) first
GlowOutlines(phase, color) ==
    [k \in 1..GlowPasses(phase) |->
        [glow  |-> GlowPasses(phase) + 1 - k,
         color |-> GlowColor(color, GlowStep(phase), GlowPasses(phase) + 1 - k)]]

-----------------------------------------------------------------------------
(* league/compete.py: run_match *)

\* a plausible slip: the reward is credited to both teams
AccumulateBoth(rw, team, reward) == [k \in 1..2 |-> rw[k] + reward]

\* rewards[team.id] += reward
AccumulateReward(rw, team, reward) == [rw EXCEPT ![team] = @ + reward]

\* if record and turn_count % 2 == 0: frame = env.render();
\* if frame is not None: frames.append(frame)
RecordFrame(fr, rec, tc, rendered) ==
    IF rec /\ tc % SamplingStride = 0 /\ rendered
    THEN Append(fr, [turn |-> tc + 1])
    ELSE fr

\* if term or trunc: action = None; else: action = select_action_with_skill(...)
ChooseAction(term) == IF term THEN "None" ELSE "chosen"

\* a plausible slip: the cap is tested with > instead of >=
CapReachedLate(tc, cap) == tc > cap

\* if turn_count >= max_turns: break
CapReached(tc, cap) == tc >= cap

\* one iteration of `for agent in env.agent_iter()`: env.last(), the reward
\* is added to the acting team, the scores are recorded, the action is chosen
\* (term stands for `term or trunc`), the environment is stepped, a frame is
\* sampled, and the turn cap is tested
MatchTurn(team, reward, term, rendered) ==
    /\ pc = "loop"
    /\ LET rw == AccumulateReward(rewards, team, reward) IN
        /\ rewards' = rw
        /\ scores_over_time' = Append(scores_over_time, rw)
    /\ env_log' = Append(env_log, [team |-> team, reward |-> reward, term |-> term])
    /\ step_log' = Append(step_log, ChooseAction(term))
    /\ decide_calls' = IF ChooseAction(term) = "None" THEN decide_calls
                                                      ELSE decide_calls + 1
    /\ frames' = RecordFrame(frames, record, turn_count, rendered)
    /\ turn_count' = turn_count + 1
    /\ pc' = IF CapReached(turn_count + 1, max_turns) THEN "finish" ELSE "loop"
    /\ UNCHANGED <<record, max_turns, team1_color, env_closed, winner,
                   sampled_scores, result_video, exc>>
    /\ UNCHANGED videoVars
    /\ UNCHANGED colorVars
    /\ UNCHANGED otherVars

\* env.agent_iter() is exhausted: the environment has no agent left
IterStop ==
    /\ pc = "loop"
    /\ pc' = "finish"
    /\ UNCHANGED matchVars
    /\ UNCHANGED <<exc>>
    /\ UNCHANGED videoVars
    /\ UNCHANGED colorVars
    /\ UNCHANGED otherVars

\* the winner is the team with the strictly greater total
Winner(rw) ==
    IF rw[1] > rw[2] THEN "team1"
    ELSE IF rw[2] > rw[1] THEN "team2"
    ELSE "none"

\* Python's s[::k]
EveryKth(s, k) == [j \in 1..((Len(s) + k - 1) \div k) |-> s[(j - 1) * k + 1]]

\* scores_over_time[::2][: len(frames)]
SampledScores(scores, nframes) ==
    SubSeq(EveryKth(scores, SamplingStride), 1,
           Min(nframes, Len(EveryKth(scores, SamplingStride))))

\* after the loop: env.close(), the winner, and, if record and frames, the
\* call of save_match_video
FinishMatch ==
    /\ pc = "finish"
    /\ env_closed' = env_closed + 1
    /\ winner' = Winner(rewards)
    /\ IF record /\ frames # <<>>
       THEN /\ sampled_scores' = SampledScores(scores_over_time, Len(frames))
            /\ pc' = "assemble"
       ELSE /\ sampled_scores' = sampled_scores
            /\ pc' = "done"
    /\ UNCHANGED <<record, max_turns, team1_color, turn_count, rewards,
                   scores_over_time, frames, env_log, step_log, decide_calls,
                   result_video, exc>>
    /\ UNCHANGED videoVars
    /\ UNCHANGED colorVars
    /\ UNCHANGED otherVars

-----------------------------------------------------------------------------
(* league/video.py: save_match_video *)

\* create_animated_intro: one frame per i in range(int(3.0 * FPS))
IntroFrames ==
    [k \in 1..IntroFrameCount |->
        [phase |-> "intro", index |-> k - 1, game |-> NoFrame,
         score |-> <<0, 0>>, turn |-> 0, winner |-> "none"]]

\* the score drawn on Play frame i: scores_over_time[i] if i < len, else the
\* last score, else (0, 0)
PlayScore(scores, i) ==
    IF i < Len(scores) THEN scores[i + 1]
    ELSE IF scores # <<>> THEN scores[Len(scores)]
    ELSE <<0, 0>>

\* create_game_frame(game_frame, ..., score1, score2, turn=i + 1, frame_num=i)
\* for i, game_frame in enumerate(game_frames)
PlayFrames(game_frames, scores) ==
    [k \in 1..Len(game_frames) |->
        [phase |-> "play", index |-> k - 1, game |-> game_frames[k],
         score |-> PlayScore(scores, k - 1), turn |-> k, winner |-> "none"]]

\* scores_over_time[-1] if scores_over_time else (0, 0)
FinalScore(scores) == IF scores # <<>> THEN scores[Len(scores)] ELSE <<0, 0>>

\* create_winner_sequence: one frame per i in range(int(4.0 * FPS))
OutcomeFrames(win, fs) ==
    [k \in 1..OutcomeFrameCount |->
        [phase |-> "outcome", index |-> k - 1, game |-> NoFrame,
         score |-> fs, turn |-> 0, winner |-> win]]

\* all_frames: intro_frames, then the Play frames, then winner_frames; and
\* video = ImageSequenceClip(all_frames, fps=FPS). The renderers resolve the
\* team colors first: a ValueError of hex_to_rgb leaves the call.
AssembleTimeline ==
    /\ pc = "assemble"
    /\ IF hex_to_rgb(team1_color).ok
       THEN /\ all_frames' = IntroFrames
                             \o PlayFrames(frames, sampled_scores)
                             \o OutcomeFrames(winner, FinalScore(sampled_scores))
            /\ final_score' = FinalScore(sampled_scores)
            /\ video_open' = TRUE
            /\ pc' = "audio"
            /\ exc' = exc
       ELSE /\ pc' = "raised"
            /\ exc' = "color"
            /\ UNCHANGED <<all_frames, final_score, video_open>>
    /\ UNCHANGED matchVars
    /\ UNCHANGED <<audio_open, audio_in, audio_track, written>>
    /\ UNCHANGED colorVars
    /\ UNCHANGED otherVars

\* a plausible slip: the comparison of the two durations is inverted
FitAudioInverted(dur, vd) ==
    IF dur >= vd
    THEN [duration |-> vd, mode |-> "loop", volume |-> 100]
    ELSE [duration |-> vd - 0, mode |-> "cut", volume |-> 100]

\* if audio.duration < video.duration: audio.loop(duration=video.duration)
\* else: audio.subclip(0, video.duration)
FitAudio(dur, vd) ==
    IF dur < vd
    THEN [duration |-> vd, mode |-> "loop", volume |-> 100]
    ELSE [duration |-> vd - 0, mode |-> "cut", volume |-> 100]

\* audio.volumex(0.3)
Volumex(track) == [track EXCEPT !.volume = (@ * VolumePercent) \div 100]

\* a plausible slip: the audio block has no try/except
AudioBlockUnguarded(present, dur, fail, vd) ==
    IF ~present THEN [track |-> NoTrack, open |-> FALSE, raised |-> FALSE]
    ELSE IF fail = "load" THEN [track |-> NoTrack, open |-> FALSE, raised |-> TRUE]
    ELSE IF fail # "none" THEN [track |-> NoTrack, open |-> TRUE, raised |-> TRUE]
    ELSE [track |-> Volumex(FitAudio(dur, vd)), open |-> TRUE, raised |-> FALSE]

\* if audio_path.exists(): try: AudioFileClip, loop/subclip, volumex,
\* set_audio; except Exception: pass
AudioBlock(present, dur, fail, vd) ==
    IF ~present THEN [track |-> NoTrack, open |-> FALSE, raised |-> FALSE]
    ELSE IF fail = "load" THEN [track |-> NoTrack, open |-> FALSE, raised |-> FALSE]
    ELSE IF fail # "none" THEN [track |-> NoTrack, open |-> TRUE, raised |-> FALSE]
    ELSE [track |-> Volumex(FitAudio(dur, vd)), open |-> TRUE, raised |-> FALSE]

\* the audio block, for an asset that is present or not, of duration dur,
\* whose handling raises at `fail`
AddAudio(present, dur, fail) ==
    /\ pc = "audio"
    /\ LET out == AudioBlock(present, dur, fail, Len(all_frames)) IN
        /\ audio_in' = IF present
                       THEN [exists |-> TRUE, duration |-> dur, fail |-> fail]
                       ELSE NoAudio
        /\ audio_track' = out.track
        /\ audio_open' = out.open
        /\ pc' = IF out.raised THEN "raised" ELSE "write"
        /\ exc' = IF out.raised THEN "audio" ELSE exc
    /\ UNCHANGED matchVars
    /\ UNCHANGED <<all_frames, final_score, video_open, written>>
    /\ UNCHANGED colorVars
    /\ UNCHANGED otherVars

\* video.write_videofile(...): completes, or raises and leaves the call
WriteVideo(ok) ==
    /\ pc = "write"
    /\ written' = ok
    /\ pc' = IF ok THEN "close" ELSE "raised"
    /\ exc' = IF ok THEN exc ELSE "write"
    /\ UNCHANGED matchVars
    /\ UNCHANGED <<all_frames, final_score, video_open, audio_open, audio_in,
                   audio_track>>
    /\ UNCHANGED colorVars
    /\ UNCHANGED otherVars

\* video.close(); return video_path; result["video"] = str(video_path).
\* Closing the clip is taken to release the audio attached to it.
CloseVideo ==
    /\ pc = "close"
    /\ video_open' = FALSE
    /\ audio_open' = IF audio_track # NoTrack THEN FALSE ELSE audio_open
    /\ result_video' = "path"
    /\ pc' = "done"
    /\ UNCHANGED <<record, max_turns, team1_color, turn_count, rewards,
                   scores_over_time, frames, env_log, step_log, decide_calls,
                   env_closed, winner, sampled_scores, exc>>
    /\ UNCHANGED <<all_frames, final_score, audio_in, audio_track, written>>
    /\ UNCHANGED colorVars
    /\ UNCHANGED otherVars

-----------------------------------------------------------------------------
(* The match specification: run_match from its first line to its return *)

Init ==
    /\ pc = "loop"
    /\ record \in BOOLEAN
    /\ max_turns \in 1..MaxTurns
    /\ team1_color \in TeamColors
    /\ turn_count = 0
    /\ rewards = <<0, 0>>
    /\ scores_over_time = <<>>
    /\ frames = <<>>
    /\ env_log = <<>>
    /\ step_log = <<>>
    /\ decide_calls = 0
    /\ env_closed = 0
    /\ winner = "unset"
    /\ sampled_scores = <<>>
    /\ exc = "none"
    /\ result_video = "absent"
    /\ all_frames = <<>>
    /\ final_score = <<0, 0>>
    /\ video_open = FALSE
    /\ audio_open = FALSE
    /\ audio_in = NoAudio
    /\ audio_track = NoTrack
    /\ written = FALSE
    /\ token = <<>>
    /\ color_result = Pending
    /\ glow_drawn = NoGlow
    /\ OtherIdle

\* The action passed to env.step() has no effect on the video, so here the
\* environment reports no agent terminated; SpecLoop explores both reports.
Next ==
    \/ \E team \in 1..2, reward \in Rewards, rendered \in BOOLEAN :
           MatchTurn(team, reward, FALSE, rendered)
    \/ IterStop
    \/ FinishMatch
    \/ AssembleTimeline
    \/ \E present \in BOOLEAN, dur \in AudioDurations, fail \in AudioFailPoints :
           AddAudio(present, dur, fail)
    \/ \E ok \in BOOLEAN : WriteVideo(ok)
    \/ CloseVideo

Spec == Init /\ [][Next]_vars

-----------------------------------------------------------------------------
(* The color specification: hex_to_rgb on every token up to MaxLen           *)
(* characters, and the glow loops of the renderers on the colors it returns *)

Tokens == UNION { [1..n -> Alphabet] : n \in 0..MaxLen }

\* team1_color = hex_to_rgb(team1.color)
ResolveColor ==
    /\ pc = "color"
    /\ color_result = Pending
    /\ color_result' = hex_to_rgb(token)
    /\ UNCHANGED <<pc, exc, token, glow_drawn>>
    /\ UNCHANGED matchVars
    /\ UNCHANGED videoVars
    /\ UNCHANGED otherVars

\* one glow loop of the renderer of `phase` around a panel of the resolved color
DrawGlow(phase) ==
    /\ pc = "color"
    /\ color_result.ok
    /\ glow_drawn = NoGlow
    /\ glow_drawn' = [phase |-> phase, base |-> color_result.rgb,
                      outlines |-> GlowOutlines(phase, color_result.rgb)]
    /\ UNCHANGED <<pc, exc, token, color_result>>
    /\ UNCHANGED matchVars
    /\ UNCHANGED videoVars
    /\ UNCHANGED otherVars

InitColor ==
    /\ pc = "color"
    /\ token \in Tokens
    /\ color_result = Pending
    /\ glow_drawn = NoGlow
    /\ record = FALSE
    /\ max_turns = 1
    /\ team1_color = <<>>
    /\ turn_count = 0
    /\ rewards = <<0, 0>>
    /\ scores_over_time = <<>>
    /\ frames = <<>>
    /\ env_log = <<>>
    /\ step_log = <<>>
    /\ decide_calls = 0
    /\ env_closed = 0
    /\ winner = "unset"
    /\ sampled_scores = <<>>
    /\ exc = "none"
    /\ result_video = "absent"
    /\ all_frames = <<>>
    /\ final_score = <<0, 0>>
    /\ video_open = FALSE
    /\ audio_open = FALSE
    /\ audio_in = NoAudio
    /\ audio_track = NoTrack
    /\ written = FALSE
    /\ OtherIdle

NextColor ==
    \/ ResolveColor
    \/ \E phase \in Phases : DrawGlow(phase)

SpecColor == InitColor /\ [][NextColor]_vars

-----------------------------------------------------------------------------
(* Claims about the Timeline and the telemetry (specification Spec) *)

CeilDiv(a, b) == (a + b - 1) \div b

\* the Timeline has been assembled and handed on to the encoder
TimelineAssembled == pc \in {"audio", "write", "close"} \/ result_video = "path"

\* the Play frames of the Timeline, in order
PlaySegment == SelectSeq(all_frames, LAMBDA f : f.phase = "play")

\* C1: the Timeline handed to the encoder has exactly
\* IntroFrameCount + ceil(turn_count / SamplingStride) + OutcomeFrameCount
\* frames, whatever render() returned on the sampled turns.
C1_TimelineLength ==
    TimelineAssembled =>
        Len(all_frames) = IntroFrameCount
                          + CeilDiv(turn_count, SamplingStride)
                          + OutcomeFrameCount

\* C2: a recorded match of zero turns still produces its video: the Timeline
\* is the Intro frames followed by the Outcome frames of a draw with final
\* score (0, 0); the video is neither skipped nor failed.
C2_ZeroTurnVideo ==
    (pc = "done" /\ record /\ turn_count = 0 /\ hex_to_rgb(team1_color).ok) =>
        /\ result_video = "path"
        /\ all_frames = IntroFrames \o OutcomeFrames("none", <<0, 0>>)

\* C3: every Play frame shows the cumulative score recorded on the turn whose
\* game frame it embeds, and the Play frames keep the order of their turns.
C3_ScoreSync ==
    TimelineAssembled =>
        /\ \A k \in 1..Len(PlaySegment) :
               PlaySegment[k].score = scores_over_time[PlaySegment[k].game.turn]
        /\ \A k \in 1..(Len(PlaySegment) - 1) :
               PlaySegment[k].game.turn < PlaySegment[k + 1].game.turn

\* C4 as stated: each team's cumulative score never decreases from one
\* recorded turn to the next, for every reward sequence of the environment.
C4_ScoresNonDecreasing ==
    \A k \in 1..(Len(scores_over_time) - 1) :
        /\ scores_over_time[k + 1][1] >= scores_over_time[k][1]
        /\ scores_over_time[k + 1][2] >= scores_over_time[k][2]

ScoreBefore(k) == IF k = 1 THEN <<0, 0>> ELSE scores_over_time[k - 1]

\* C4 as amended: the telemetry holds one entry per turn (turns 1, 2, ...,
\* turn_count, in order); the entry of turn k is the entry before it with the
\* signed reward delivered on turn k added to the acting team's score and the
\* other team's score unchanged; so no score decreases on a turn whose
\* delivered reward is not negative.
C4_ScoresAreRunningSums ==
    /\ Len(scores_over_time) = turn_count
    /\ Len(env_log) = turn_count
    /\ \A k \in 1..Len(scores_over_time) :
        /\ \A t \in 1..2 :
               scores_over_time[k][t] =
                   ScoreBefore(k)[t]
                   + (IF env_log[k].team = t THEN env_log[k].reward ELSE 0)
        /\ env_log[k].reward >= 0 =>
               /\ scores_over_time[k][1] >= ScoreBefore(k)[1]
               /\ scores_over_time[k][2] >= ScoreBefore(k)[2]

\* a team's recorded score has decreased between two turns
C4_Witness ==
    /\ turn_count >= 2
    /\ \E k \in 1..(Len(scores_over_time) - 1) :
           scores_over_time[k + 1][2] < scores_over_time[k][2]

-----------------------------------------------------------------------------
(* Claims about colors (specification SpecColor) *)

AllHex(s) == \A k \in 1..Len(s) : s[k] \in HexDigits

\* exactly 6 hexadecimal digits, with or without one leading '#'
WellFormedToken(t) ==
    \/ Len(t) = 6 /\ AllHex(t)
    \/ Len(t) = 7 /\ t[1] = "#" /\ AllHex(Tail(t))

\* the 6 digits of a well-formed token
TokenDigits(t) == IF Len(t) = 7 THEN Tail(t) ELSE t

PairValue(d, k) == 16 * HexDigitVal(d[k]) + HexDigitVal(d[k + 1])

\* C5: on a token of exactly 6 hex digits, with or without one leading '#',
\* hex_to_rgb returns the triple of the values of the three digit pairs.
C5_DecodesWellFormed ==
    (color_result # Pending /\ WellFormedToken(token)) =>
        /\ color_result.ok
        /\ color_result.rgb = << PairValue(TokenDigits(token), 1),
                                 PairValue(TokenDigits(token), 3),
                                 PairValue(TokenDigits(token), 5) >>

\* "#Fa0a0a" has been resolved to (250, 10, 10)
C5_Witness ==
    /\ token = <<"#", "F", "a", "0", "a", "0", "a">>
    /\ color_result = [ok |-> TRUE, rgb |-> <<250, 10, 10>>]

\* C6: resolving a token that is not exactly 6 hex digits after removing at
\* most one leading '#' fails; no such token yields an RGB triple.
C6_MalformedRejected ==
    (color_result # Pending /\ ~WellFormedToken(token)) => ~color_result.ok

Clamp255(x) == IF x > 255 THEN 255 ELSE x

-----------------------------------------------------------------------------
(* Claims about the audio track and the video resource (specification Spec) *)

\* the audio block of save_match_video has been passed
PastAudio == all_frames # <<>> /\ pc # "audio"

\* every step of the audio block succeeded on a present asset
AudioLoaded == audio_in.exists /\ audio_in.fail = "none"

C9_AudioBestEffort ==
    (PastAudio /\ ~AudioLoaded) =>
        /\ audio_track = NoTrack
        /\ exc # "audio"
        /\ pc \in {"write", "close", "done", "raised"}
        /\ pc = "raised" => exc = "write"
        /\ pc = "done" => (written /\ result_video = "path")

\* the video was written and its path returned after the fitting step raised
C9_Witness ==
    /\ pc = "done"
    /\ written
    /\ result_video = "path"
    /\ audio_in.exists
    /\ audio_in.fail = "fit"
    /\ audio_track = NoTrack

\* C10: on every exit path of save_match_video the video clip, and any audio
\* clip that was opened, has been closed.
C10_ClosedOnEveryExit ==
    pc \in {"done", "raised"} => (~video_open /\ ~audio_open)

-----------------------------------------------------------------------------
(* The path specification: invocations of save_match_video, in one process  *)
(* or several, each reading the wall clock when it names its output file    *)

\* the team ids of the matches
TeamIds == {"la", "nyc"}

\* the clock advances
Tick ==
    /\ pc = "path"
    /\ clock < MaxClock
    /\ clock' = clock + 1
    /\ UNCHANGED <<pc, exc, saves>>
    /\ UNCHANGED <<matchVars, videoVars, colorVars>>
    /\ UNCHANGED <<skillVars, configVars, renderVars>>

\* datetime.now().strftime("%Y%m%d_%H%M%S"): the clock cut to the whole second
Timestamp(c) == ToString(c \div TicksPerSecond)

\* videos_dir / f"{team1.id}_vs_{team2.id}_{timestamp}.mp4"
VideoPath(id1, id2, c) ==
    "videos/" \o id1 \o "_vs_" \o id2 \o "_" \o Timestamp(c) \o ".mp4"

\* one invocation names its output file and writes it
SaveVideo(id1, id2) ==
    /\ pc = "path"
    /\ Len(saves) < MaxSaves
    /\ saves' = Append(saves, [team1 |-> id1, team2 |-> id2, at |-> clock,
                               path |-> VideoPath(id1, id2, clock)])
    /\ UNCHANGED <<pc, exc, clock>>
    /\ UNCHANGED <<matchVars, videoVars, colorVars>>
    /\ UNCHANGED <<skillVars, configVars, renderVars>>

\* the variables of run_match and save_match_video, before any call
MatchIdle ==
    /\ record = FALSE
    /\ max_turns = 1
    /\ team1_color = <<>>
    /\ turn_count = 0
    /\ rewards = <<0, 0>>
    /\ scores_over_time = <<>>
    /\ frames = <<>>
    /\ env_log = <<>>
    /\ step_log = <<>>
    /\ decide_calls = 0
    /\ env_closed = 0
    /\ winner = "unset"
    /\ sampled_scores = <<>>
    /\ exc = "none"
    /\ result_video = "absent"
    /\ all_frames = <<>>
    /\ final_score = <<0, 0>>
    /\ video_open = FALSE
    /\ audio_open = FALSE
    /\ audio_in = NoAudio
    /\ audio_track = NoTrack
    /\ written = FALSE
    /\ token = <<>>
    /\ color_result = Pending
    /\ glow_drawn = NoGlow

InitPath ==
    /\ pc = "path"
    /\ MatchIdle
    /\ clock = 0
    /\ saves = <<>>
    /\ skill_in = NoSkillCall
    /\ skill_out = NoOutcome
    /\ cfg_in = NoRequest
    /\ cfg_state = ConfigIdle
    /\ render_in = NoRender
    /\ render_frames = <<>>

NextPath ==
    \/ Tick
    \/ \E id1 \in TeamIds, id2 \in TeamIds : SaveVideo(id1, id2)

SpecPath == InitPath /\ [][NextPath]_vars

\* C11: no two invocations of save_match_video compute the same output path,
\* whatever their team pairs and whenever they run.
C11_PathsDistinct ==
    \A i \in 1..Len(saves) : \A j \in 1..Len(saves) :
        i # j => saves[i].path # saves[j].path

-----------------------------------------------------------------------------
(* league/compete.py: select_action_with_skill. skill_level and the value   *)
(* of np.random.random() are in hundredths.                                 *)

SkillLevels == {0, 50, 100}

\* values of np.random.random(), which lies in [0, 1)
Draws == {0, 50, 99}

ActionIds == 0..(NumActions - 1)

\* obs["action_mask"]: entry a + 1 is 1 when action a is legal
Masks == [1..NumActions -> {0, 1}]

\* np.where(mask == 1)[0]: the legal action ids, ascending
LegalActions(mask) ==
    LET Pick[k \in 0..Len(mask)] ==
            IF k = 0 THEN <<>>
            ELSE IF mask[k] = 1 THEN Append(Pick[k - 1], k - 1)
            ELSE Pick[k - 1]
    IN  Pick[Len(mask)]

\* a plausible slip: the draw is compared with <=
UsePolicyInclusive(draw, skill) == draw <= skill

\* np.random.random() < skill_level
UsePolicy(draw, skill) == draw < skill

\* the function: policy is what model.predict(..., deterministic=True)
\* returns, pick the position np.random.choice takes in legal_actions
select_action_with_skill(mask, skill, draw, policy, pick) ==
    LET legal_actions == LegalActions(mask) IN
    IF Len(legal_actions) = 0 THEN [action |-> 0, predicts |-> 0]
    ELSE IF UsePolicy(draw, skill) THEN [action |-> policy, predicts |-> 1]
    ELSE [action |-> legal_actions[pick], predicts |-> 0]

\* one call, with its two random draws and the policy's answer
SelectAction(draw, policy, pick) ==
    /\ pc = "skill"
    /\ skill_out = NoOutcome
    /\ pick \in 1..Len(LegalActions(skill_in.mask))
       \/ (pick = 1 /\ LegalActions(skill_in.mask) = <<>>)
    /\ skill_in' = [skill_in EXCEPT !.draw = draw, !.policy = policy, !.pick = pick]
    /\ skill_out' = select_action_with_skill(skill_in.mask, skill_in.skill,
                                             draw, policy, pick)
    /\ UNCHANGED <<pc, exc>>
    /\ UNCHANGED <<matchVars, videoVars, colorVars>>
    /\ UNCHANGED <<pathVars, configVars, renderVars>>

InitSkill ==
    /\ pc = "skill"
    /\ MatchIdle
    /\ clock = 0
    /\ saves = <<>>
    /\ skill_in \in [mask : Masks, skill : SkillLevels, draw : {0},
                     policy : {0}, pick : {0}]
    /\ skill_out = NoOutcome
    /\ cfg_in = NoRequest
    /\ cfg_state = ConfigIdle
    /\ render_in = NoRender
    /\ render_frames = <<>>

NextSkill ==
    \E draw \in Draws, policy \in ActionIds, pick \in 1..NumActions :
        SelectAction(draw, policy, pick)

SpecSkill == InitSkill /\ [][NextSkill]_vars

NoLegalAction == \A a \in 1..Len(skill_in.mask) : skill_in.mask[a] # 1

\* C12: with no legal action the call returns 0 without consulting the
\* policy, at any skill level; otherwise at skill 1.0 it returns the policy's
\* deterministic action, and at skill 0.0 it does not consult the policy and
\* returns an action the mask marks legal.
C12_SkillSelection ==
    skill_out # NoOutcome =>
        /\ NoLegalAction => (skill_out.action = 0 /\ skill_out.predicts = 0)
        /\ (~NoLegalAction /\ skill_in.skill = 100) =>
               (skill_out.action = skill_in.policy /\ skill_out.predicts = 1)
        /\ (~NoLegalAction /\ skill_in.skill = 0) =>
               /\ skill_out.predicts = 0
               /\ skill_out.action \in ActionIds
               /\ skill_in.mask[skill_out.action + 1] = 1

\* at skill 0.0 with np.random.random() = 0.0 and a policy that would play
\* the illegal action 0, the legal action 2 was returned
C12_Witness ==
    /\ skill_in.mask = <<0, 1, 1>>
    /\ skill_in.skill = 0
    /\ skill_in.draw = 0
    /\ skill_in.policy = 0
    /\ skill_out = [action |-> 2, predicts |-> 0]

-----------------------------------------------------------------------------
(* league/config.py load_config and get_team, league/games.py get_game, as  *)
(* the command lines compete.py and train.py call them.                     *)

\* the keys of GAMES, in the order of the dictionary
GameOrder == <<"connect_four", "chess", "go", "rps">>

\* the keys of the teams of teams.yaml, in the order of the file
TeamOrder == <<"la", "nyc">>

\* identifiers a request can name: the known ones and an unknown one
RequestedGames == {"connect_four", "chess", "go", "rps", "checkers"}
RequestedTeams == {"la", "nyc", "sf"}

Range(seq) == {seq[k] : k \in 1..Len(seq)}

\* ", ".join(keys)
JoinComma(keys) ==
    LET Join[k \in 0..Len(keys)] ==
            IF k = 0 THEN ""
            ELSE IF k = 1 THEN keys[1]
            ELSE Join[k - 1] \o ", " \o keys[k]
    IN  Join[Len(keys)]

\* the message of the ValueError of get_game
UnknownGame(game_id) ==
    "Unknown game: " \o game_id \o ". Available: " \o JoinComma(GameOrder)

\* the message of the ValueError of get_team
UnknownTeam(team_id) ==
    "Unknown team: " \o team_id \o ". Available: " \o JoinComma(TeamOrder)

\* load_config: get_game raises for an unknown game; otherwise the models
\* directory of the game is created (if missing) and the teams are built
LoadConfig ==
    /\ pc = "config"
    /\ cfg_state.at = "idle"
    /\ cfg_state' =
         IF cfg_in.game \notin Range(GameOrder)
         THEN [cfg_state EXCEPT !.at = "failed", !.error = UnknownGame(cfg_in.game)]
         ELSE [cfg_state EXCEPT !.at = "loaded", !.models_dir = TRUE]
    /\ UNCHANGED <<pc, exc, cfg_in>>
    /\ UNCHANGED <<matchVars, videoVars, colorVars>>
    /\ UNCHANGED <<pathVars, skillVars, renderVars>>

\* get_team(config, team_id) at one stage of the command line
GetTeam(from, team_id, to) ==
    /\ pc = "config"
    /\ cfg_state.at = from
    /\ cfg_state' =
         IF team_id \notin Range(TeamOrder)
         THEN [cfg_state EXCEPT !.at = "failed", !.error = UnknownTeam(team_id)]
         ELSE [cfg_state EXCEPT !.at = to]
    /\ UNCHANGED <<pc, exc, cfg_in>>
    /\ UNCHANGED <<matchVars, videoVars, colorVars>>
    /\ UNCHANGED <<pathVars, skillVars, renderVars>>

\* compete.py looks up team1 then team2; train.py looks up its one team
GetFirstTeam ==
    GetTeam("loaded", cfg_in.team1,
            IF cfg_in.cli = "compete" THEN "team1" ELSE "teams")

GetSecondTeam ==
    /\ cfg_in.cli = "compete"
    /\ GetTeam("team1", cfg_in.team2, "teams")

\* compete.py runs the match when both teams are trained and otherwise
\* prints an error and returns; train.py trains the team
StartRun(trained) ==
    /\ pc = "config"
    /\ cfg_state.at = "teams"
    /\ cfg_state' =
         IF cfg_in.cli = "compete" /\ ~trained
         THEN [cfg_state EXCEPT !.at = "untrained"]
         ELSE [cfg_state EXCEPT !.at = "running", !.started = TRUE]
    /\ UNCHANGED <<pc, exc, cfg_in>>
    /\ UNCHANGED <<matchVars, videoVars, colorVars>>
    /\ UNCHANGED <<pathVars, skillVars, renderVars>>

InitConfig ==
    /\ pc = "config"
    /\ MatchIdle
    /\ clock = 0
    /\ saves = <<>>
    /\ skill_in = NoSkillCall
    /\ skill_out = NoOutcome
    /\ cfg_in \in [cli : {"compete", "train"}, game : RequestedGames,
                   team1 : RequestedTeams, team2 : RequestedTeams,
                   models_existed : BOOLEAN]
    /\ cfg_state = [ConfigIdle EXCEPT !.models_dir = cfg_in.models_existed]
    /\ render_in = NoRender
    /\ render_frames = <<>>

NextConfig ==
    \/ LoadConfig
    \/ GetFirstTeam
    \/ GetSecondTeam
    \/ \E trained \in BOOLEAN : StartRun(trained)

SpecConfig == InitConfig /\ [][NextConfig]_vars

\* the identifier the request fails on, in the order the command line
\* resolves them, or "none"
UnknownIdentifier ==
    IF cfg_in.game \notin Range(GameOrder) THEN "game"
    ELSE IF cfg_in.team1 \notin Range(TeamOrder) THEN "team1"
    ELSE IF cfg_in.cli = "compete" /\ cfg_in.team2 \notin Range(TeamOrder) THEN "team2"
    ELSE "none"

\* C13: when a request that names an unknown team or game has failed, the
\* message names the unknown identifier and lists the available choices,
\* no models directory was created and no match or training has started.
C13_FailsWithoutSideEffect ==
    cfg_state.at = "failed" =>
        /\ cfg_state.error =
             IF UnknownIdentifier = "game" THEN UnknownGame(cfg_in.game)
             ELSE IF UnknownIdentifier = "team1" THEN UnknownTeam(cfg_in.team1)
             ELSE UnknownTeam(cfg_in.team2)
        /\ cfg_state.models_dir = cfg_in.models_existed
        /\ ~cfg_state.started

-----------------------------------------------------------------------------
(* The footer of the Play frames.                                           *)

\* C14: the turn number in the footer of each Play frame is the 1-based
\* index, in the match, of the turn whose game frame that Play frame shows.
C14_FooterShowsMatchTurn ==
    TimelineAssembled =>
        \A k \in 1..Len(PlaySegment) :
            PlaySegment[k].turn = PlaySegment[k].game.turn

-----------------------------------------------------------------------------
(* The final score of the Outcome phase.                                    *)

\* C19: whenever run_match produces a video, the final score pair handed to
\* the Outcome sequence is the final accumulated rewards from which the
\* winner was determined, so the displayed winner is the team with the
\* strictly greater displayed score and a displayed draw shows equal scores.
C19_FinalScoreIsFinalRewards ==
    TimelineAssembled =>
        /\ final_score = rewards
        /\ winner = Winner(final_score)

-----------------------------------------------------------------------------
(* The match loop of run_match on its own, for every report of the          *)
(* environment: the agent, its reward, whether it is terminated or          *)
(* truncated, and whether render() returns a frame.                         *)

InitLoop == Init

NextLoop ==
    \/ \E team \in 1..2, reward \in Rewards, term \in BOOLEAN, rendered \in BOOLEAN :
           MatchTurn(team, reward, term, rendered)
    \/ IterStop
    \/ FinishMatch

\* the interpreter keeps running the loop and every call of the environment
\* returns
SpecLoop == InitLoop /\ [][NextLoop]_vars /\ WF_vars(NextLoop)

LoopExited == pc \notin {"loop", "finish"}

\* the turns of the match on which the agent was live
LiveTurns == {k \in 1..Len(env_log) : ~env_log[k].term}

LoopBounded ==
    /\ turn_count <= max_turns
    /\ pc = "loop" => turn_count < max_turns
    /\ Len(step_log) = turn_count
    /\ Len(env_log) = turn_count
    /\ \A k \in 1..Len(step_log) : env_log[k].term <=> step_log[k] = "None"
    /\ decide_calls = Cardinality(LiveTurns)
    /\ env_closed = IF LoopExited THEN 1 ELSE 0

\* C18: the match loop always terminates, within max_turns iterations; each
\* iteration steps the environment once, with None and without a call of the
\* decision function when the agent is terminated or truncated; the
\* environment is closed once, after the loop.
C18_LoopBoundedAndTerminates == [](LoopBounded) /\ <>(LoopExited)

\* a match that ran to the turn cap, with a terminated agent on its last
\* turn, after env.close()
C18_Witness ==
    /\ LoopExited
    /\ max_turns = MaxTurns
    /\ turn_count = max_turns
    /\ step_log[turn_count] = "None"
    /\ decide_calls = turn_count - 1
    /\ env_closed = 1

-----------------------------------------------------------------------------
(* league/video.py: the frames of create_animated_intro and of              *)
(* create_winner_sequence. A frame is the set of the gated elements drawn   *)
(* on it and the rectangles of the team panels. progress = i / num_frames   *)
(* is compared as a fraction, thresholds in tenths: i / N > t / 10 exactly  *)
(* when 10 * i > t * N, for the floats as well.                             *)

\* int(duration * FPS)
NumFrames(duration) == duration * FPS

\* a plausible slip: the gate opens at the threshold
ExceedsOrReaches(i, n, tenths) == 10 * i >= tenths * n

\* progress > threshold
Exceeds(i, n, tenths) == 10 * i > tenths * n

\* the gates of create_animated_intro, in the order of the code
IntroOrder == <<"title", "subtitle", "team1_panel", "vs", "team2_panel", "game_name">>
IntroThreshold == [title |-> 1, subtitle |-> 3, team1_panel |-> 4, vs |-> 5,
                   team2_panel |-> 6, game_name |-> 8]

\* the rectangles of the two team panels: <<x0, y0, x1, y1>>
Team1Rect == <<60, 400, VIDEO_WIDTH - 60, 520>>
Team2Rect == <<60, 680, VIDEO_WIDTH - 60, 800>>

\* frame i of create_animated_intro
IntroFrame(i, n) ==
    LET elements == {el \in Range(IntroOrder) : Exceeds(i, n, IntroThreshold[el])} IN
    [i |-> i,
     elements |-> elements,
     particles |-> TRUE,
     result_text |-> "",
     team1_rect |-> IF "team1_panel" \in elements THEN Team1Rect ELSE <<>>,
     team2_rect |-> IF "team2_panel" \in elements THEN Team2Rect ELSE <<>>]

\* a plausible slip: the panel is drawn whatever the result
PanelGateAnyResult(i, n, w) == Exceeds(i, n, 3)

\* progress > 0.3 and winner
PanelGate(i, n, w) == Exceeds(i, n, 3) /\ w # "none"

\* box_progress > 0.5 with box_progress = min(1, (progress - 0.3) * 2.5),
\* both sides multiplied by 100 * num_frames
NameGate(i, n) == Min(100 * n, (10 * i - 3 * n) * 25) > 50 * n

\* frame i of create_winner_sequence
OutcomeFrame(i, n, w) ==
    [i |-> i,
     elements |->
         {el \in {"caption"} : Exceeds(i, n, 1)}
         \cup {el \in {"panel"} : PanelGate(i, n, w)}
         \cup {el \in {"name", "champion"} : PanelGate(i, n, w) /\ NameGate(i, n)}
         \cup {el \in {"final_score"} : Exceeds(i, n, 6)}
         \cup {el \in {"footer"} : Exceeds(i, n, 8)},
     particles |-> w # "none",
     result_text |-> IF w # "none" THEN "WINNER!" ELSE "DRAW!",
     team1_rect |-> <<>>,
     team2_rect |-> <<>>]

\* one pass of the loop of create_animated_intro
RenderIntro ==
    /\ pc = "render"
    /\ render_in.phase = "intro"
    /\ Len(render_frames) < render_in.num_frames
    /\ render_frames' = Append(render_frames,
                               IntroFrame(Len(render_frames), render_in.num_frames))
    /\ UNCHANGED <<pc, exc, render_in>>
    /\ UNCHANGED <<matchVars, videoVars, colorVars>>
    /\ UNCHANGED <<pathVars, skillVars, configVars>>

\* one pass of the loop of create_winner_sequence
RenderOutcome ==
    /\ pc = "render"
    /\ render_in.phase = "outcome"
    /\ Len(render_frames) < render_in.num_frames
    /\ render_frames' = Append(render_frames,
                               OutcomeFrame(Len(render_frames), render_in.num_frames,
                                            render_in.winner))
    /\ UNCHANGED <<pc, exc, render_in>>
    /\ UNCHANGED <<matchVars, videoVars, colorVars>>
    /\ UNCHANGED <<pathVars, skillVars, configVars>>

InitRender ==
    /\ pc = "render"
    /\ MatchIdle
    /\ clock = 0
    /\ saves = <<>>
    /\ skill_in = NoSkillCall
    /\ skill_out = NoOutcome
    /\ cfg_in = NoRequest
    /\ cfg_state = ConfigIdle
    /\ \E duration \in 1..MaxDuration :
        \/ render_in = [phase |-> "intro", num_frames |-> NumFrames(duration),
                        winner |-> "none"]
        \/ \E w \in {"none", "team1", "team2"} :
               render_in = [phase |-> "outcome", num_frames |-> NumFrames(duration),
                            winner |-> w]
    /\ render_frames = <<>>

NextRender == RenderIntro \/ RenderOutcome

SpecRender == InitRender /\ [][NextRender]_vars

PhaseRendered(phase) ==
    /\ render_in.phase = phase
    /\ Len(render_frames) = render_in.num_frames

\* the 1-based position of the first frame showing an element
FirstFrame(el) ==
    CHOOSE k \in 1..Len(render_frames) :
        /\ el \in render_frames[k].elements
        /\ \A j \in 1..(k - 1) : el \notin render_frames[j].elements

\* C15: in the Intro phase each element is drawn in frame i if and only if
\* progress = i / N exceeds its threshold (title 0.1, subtitle 0.3, Team-1
\* panel 0.4, VS badge 0.5, Team-2 panel 0.6, game name 0.8), with progress in
\* [0, 1); so the elements first appear in that order and an element that has
\* appeared is present in every later frame.
C15_IntroGates ==
    render_in.phase = "intro" =>
        /\ \A k \in 1..Len(render_frames) :
               /\ render_frames[k].i = k - 1
               /\ k - 1 < render_in.num_frames
               /\ "title" \in render_frames[k].elements
                      <=> 10 * (k - 1) > 1 * render_in.num_frames
               /\ "subtitle" \in render_frames[k].elements
                      <=> 10 * (k - 1) > 3 * render_in.num_frames
               /\ "team1_panel" \in render_frames[k].elements
                      <=> 10 * (k - 1) > 4 * render_in.num_frames
               /\ "vs" \in render_frames[k].elements
                      <=> 10 * (k - 1) > 5 * render_in.num_frames
               /\ "team2_panel" \in render_frames[k].elements
                      <=> 10 * (k - 1) > 6 * render_in.num_frames
               /\ "game_name" \in render_frames[k].elements
                      <=> 10 * (k - 1) > 8 * render_in.num_frames
        /\ \A j \in 1..Len(render_frames), k \in 1..Len(render_frames) :
               j < k => render_frames[j].elements \subseteq render_frames[k].elements
        /\ PhaseRendered("intro") =>
               \A e \in 1..(Len(IntroOrder) - 1) :
                   FirstFrame(IntroOrder[e]) < FirstFrame(IntroOrder[e + 1])

\* the three-second Intro of save_match_video, rendered: frame 36, at
\* progress 0.5 exactly, has no VS badge and frame 37 has it
C15_Witness ==
    /\ PhaseRendered("intro")
    /\ render_in.num_frames = 3 * FPS
    /\ render_frames[37].elements = {"title", "subtitle", "team1_panel"}
    /\ render_frames[38].elements = {"title", "subtitle", "team1_panel", "vs"}

\* the positions of the frames inside the slide window of a panel: progress
\* in (from, from + 1/3)
SlideWindow(from) ==
    {k \in 1..Len(render_frames) :
        /\ 10 * (k - 1) > from * render_in.num_frames
        /\ 30 * (k - 1) < (3 * from + 10) * render_in.num_frames}

\* C16: in the Intro phase the Team-1 panel is drawn at a horizontal position
\* that moves with progress from 0.4 to 0.4 + 1/3, and the Team-2 panel does
\* the same from 0.6: the x-coordinates of the drawn rectangle at two frames
\* inside the slide window differ.
C16_PanelsSlide ==
    PhaseRendered("intro") =>
        /\ \A j \in SlideWindow(4), k \in SlideWindow(4) :
               j # k => render_frames[j].team1_rect[1] # render_frames[k].team1_rect[1]
        /\ \A j \in SlideWindow(6), k \in SlideWindow(6) :
               j # k => render_frames[j].team2_rect[1] # render_frames[k].team2_rect[1]

\* C17: in every frame of the Outcome phase, without a winner no particle,
\* no winner panel and no winner name or CHAMPION label is drawn and the
\* result caption reads DRAW!; with a winner it reads WINNER!, the panel is
\* drawn exactly when progress > 0.3 and the name and CHAMPION labels exactly
\* when the panel is more than half-grown (progress > 0.5). In both cases the
\* caption is drawn when progress > 0.1, the FINAL SCORE panels when
\* progress > 0.6 and the footer when progress > 0.8.
C17_OutcomeBranches ==
    render_in.phase = "outcome" =>
        \A k \in 1..Len(render_frames) :
            LET f == render_frames[k]
                n == render_in.num_frames
            IN  /\ render_in.winner = "none" =>
                       /\ ~f.particles
                       /\ f.elements \cap {"panel", "name", "champion"} = {}
                       /\ f.result_text = "DRAW!"
                /\ render_in.winner # "none" =>
                       /\ f.particles
                       /\ f.result_text = "WINNER!"
                       /\ "panel" \in f.elements <=> 10 * (k - 1) > 3 * n
                       /\ "name" \in f.elements <=> 2 * (k - 1) > n
                       /\ "champion" \in f.elements <=> "name" \in f.elements
                /\ "caption" \in f.elements <=> 10 * (k - 1) > 1 * n
                /\ "final_score" \in f.elements <=> 10 * (k - 1) > 6 * n
                /\ "footer" \in f.elements <=> 10 * (k - 1) > 8 * n

\* the four-second Outcome of save_match_video for a draw, rendered to its
\* last frame
C17_Witness ==
    /\ PhaseRendered("outcome")
    /\ render_in.num_frames = 4 * FPS
    /\ render_in.winner = "none"
    /\ render_frames[40].elements = {"caption"}
    /\ render_frames[Len(render_frames)].elements = {"caption", "final_score", "footer"}
    /\ render_frames[Len(render_frames)].result_text = "DRAW!"

=============================================================================
